---------------------------- MODULE Spec2Model ----------------------------
(***************************************************************************)
(* MLFindSpam: the rule-based feature extractor (src/src/feature_extractor *)
(* .py) and the text normaliser clean_text (src/src/predict.py and         *)
(* src/src/prepare.py).                                                    *)
(*                                                                         *)
(* A Python str is a sequence of Unicode code points (integers).  Regular  *)
(* expressions are data (ordered alternatives of quantified character      *)
(* classes and groups) interpreted by a matcher, so that what a pattern    *)
(* accepts is computed, not assumed.                                       *)
(***************************************************************************)
EXTENDS Integers, Sequences, FiniteSets, TLC

VARIABLES
    self,       \* the SpamFeatureExtractor instance: its attributes
    X,          \* the batch of messages last handed to transform
    features,   \* what the last transform / add_spam_features returned
    names,      \* what the last get_feature_names returned
    text,       \* the argument of clean_text
    cleaned,    \* what the last clean_text returned
    op,         \* the last operation that ran
    model_pkl,  \* the bundle file model.pkl
    calls,      \* the answers predict gave since the bundle file was written
    loads,      \* how often this process opened and unpickled the bundle file
    response,   \* what the last predict call or /classify request gave
    raw_csv,          \* data/raw.csv
    russian_csv,      \* data/russian_messages.csv
    backup_simple,    \* data/raw_english_only_backup.csv
    backup_russian,   \* data/raw_english_only.csv
    multilingual_csv, \* data/raw_multilingual.csv
    train_csv,        \* data/train.csv
    test_csv,         \* data/test.csv
    history,          \* the runs of the merge scripts so far
    prepared          \* what the run of prepare_data did

extractorVars == <<self, X, features, names, text, cleaned, op>>
serviceVars == <<model_pkl, calls, loads, response>>
dataVars ==
    <<raw_csv, russian_csv, backup_simple, backup_russian, multilingual_csv,
      train_csv, test_csv, history, prepared>>
vars == <<extractorVars, serviceVars, dataVars>>

(***************************************************************************)
(* Bounds of the model.                                                    *)
(***************************************************************************)
MaxPieces == 2        \* a message given to the extractor: at most this many pieces
MaxCleanPieces == 4   \* a text given to clean_text: at most this many pieces
MaxBatch == 3         \* a batch holds at most this many messages
MaxKeywordPieces == 2 \* a keyword message is at most this many pieces
MaxLoads == 3         \* a process unpickles the bundle at most this often
MaxRuns == 2          \* the merge scripts run at most this often
MaxEnglishRows == 2   \* the English source holds at most this many rows
MaxExtraRows == 1     \* rows put before the six messages given to prepare_data
MaxPipelinePieces == 3 \* a text given to the pipeline is at most this many pieces

(***************************************************************************)
(* Characters.  Python's str.isspace / re's \s, str.isupper, str.isdigit   *)
(* and str.lower, on the code points the model draws messages from.        *)
(***************************************************************************)
\* str.isspace() and \s agree: these 29 code points (below U+3100).
Whitespace ==
    (9..13) \cup (28..32) \cup {133, 160, 5760} \cup (8192..8202)
        \cup {8232, 8233, 8239, 8287, 12288}

\* [a-z], [A-Z], [а-я], [А-Я], \d (ASCII digits)
LatinLower == 97..122
LatinUpper == 65..90
CyrLower == 1072..1103
CyrUpper == 1040..1071
\* U+0400..U+040F (Ѐ..Џ, with Ё = U+0401) lowercase to U+0450..U+045F (ё = U+0451)
CyrExtUpper == 1024..1039
CyrExtLower == 1104..1119
Digits == 48..57
\* Uppercase letters (category Lu) that have no lowercase mapping; the model
\* draws U+2102 DOUBLE-STRUCK CAPITAL C.
UpperNoLower == {8450}

\* c.isupper()
IsUpper(c) == c \in LatinUpper \cup CyrUpper \cup CyrExtUpper \cup UpperNoLower

\* c.isdigit()
IsDigit(c) == c \in Digits

\* c.lower()
LowerChar(c) ==
    IF c \in LatinUpper \cup CyrUpper THEN c + 32
    ELSE IF c \in CyrExtUpper THEN c + 80
    ELSE c

\* text.lower()
Lower(s) == [i \in 1..Len(s) |-> LowerChar(s[i])]

(***************************************************************************)
(* Sequence helpers.                                                       *)
(***************************************************************************)
RECURSIVE Flatten(_)
Flatten(ss) == IF ss = <<>> THEN <<>> ELSE Head(ss) \o Flatten(Tail(ss))

\* all sequences over S of length 0..n
SeqsUpTo(S, n) == UNION {[1..k -> S] : k \in 0..n}

\* text.count(c)
Count(s, c) == Cardinality({i \in 1..Len(s) : s[i] = c})

\* sum(1 for c in text if c.isupper())
CountUpper(s) == Cardinality({i \in 1..Len(s) : IsUpper(s[i])})

\* sum(1 for c in text if c.isdigit())
CountDigit(s) == Cardinality({i \in 1..Len(s) : IsDigit(s[i])})

\* word in text
IsSubstring(w, s) ==
    \E i \in 0..(Len(s) - Len(w)) : \A j \in 1..Len(w) : s[i + j] = w[j]

\* text.strip()
Strip(s) ==
    LET keep == {i \in 1..Len(s) : s[i] \notin Whitespace}
    IN  IF keep = {} THEN <<>>
        ELSE LET lo == CHOOSE i \in keep : \A j \in keep : i <= j
                 hi == CHOOSE i \in keep : \A j \in keep : j <= i
             IN  SubSeq(s, lo, hi)

\* text.split(): the maximal runs of non-whitespace characters, in order
Split(s) ==
    LET starts == {i \in 1..Len(s) :
                      s[i] \notin Whitespace /\ (i = 1 \/ s[i - 1] \in Whitespace)}
        stop(i) == CHOOSE j \in i..Len(s) :
                      /\ \A k \in i..j : s[k] \notin Whitespace
                      /\ (j = Len(s) \/ s[j + 1] \in Whitespace)
        nth(k) == CHOOSE i \in starts : Cardinality({j \in starts : j < i}) = k - 1
    IN  [k \in 1..Cardinality(starts) |-> SubSeq(s, nth(k), stop(nth(k)))]

(***************************************************************************)
(* Regular expressions.  A pattern is a sequence of alternatives (tried in *)
(* order); an alternative is a sequence of items; an item is a character   *)
(* class with a repetition range (max = -1: unbounded) or a group of       *)
(* alternatives.                                                           *)
(***************************************************************************)
Cls(S, lo, hi) == [kind |-> "cls", set |-> S, neg |-> FALSE, min |-> lo, max |-> hi]
NotCls(S, lo, hi) == [kind |-> "cls", set |-> S, neg |-> TRUE, min |-> lo, max |-> hi]
Grp(alts) == [kind |-> "grp", alts |-> alts]
\* a literal string: one item per character
Lit(w) == [i \in 1..Len(w) |-> Cls({w[i]}, 1, 1)]

InClass(item, c) == IF item.neg THEN c \notin item.set ELSE c \in item.set

\* how many characters from pos on are in the item's class, up to its max
RECURSIVE RunLen(_, _, _, _)
RunLen(item, s, pos, n) ==
    IF pos + n > Len(s) \/ (item.max >= 0 /\ n >= item.max) THEN n
    ELSE IF InClass(item, s[pos + n]) THEN RunLen(item, s, pos, n + 1)
    ELSE n

\* the positions where a match of items[k..] that starts at pos may end
RECURSIVE EndsSeq(_, _, _, _), EndsAlts(_, _, _)
EndsSeq(items, k, s, pos) ==
    IF k > Len(items) THEN {pos}
    ELSE LET item == items[k]
         IN  IF item.kind = "grp"
             THEN UNION {EndsSeq(items, k + 1, s, e) : e \in EndsAlts(item.alts, s, pos)}
             ELSE UNION {EndsSeq(items, k + 1, s, pos + n) :
                            n \in item.min..RunLen(item, s, pos, 0)}

EndsAlts(alts, s, pos) == UNION {EndsSeq(alts[a], 1, s, pos) : a \in 1..Len(alts)}

\* pattern.search(text) is not None
Search(re, s) == \E pos \in 1..(Len(s) + 1) : EndsAlts(re, s, pos) # {}

SetMax(S) == CHOOSE x \in S : \A y \in S : y <= x

\* Where the match that starts at pos ends, 0 if none starts there.  The first
\* alternative that matches wins; each alternative of the patterns given to
\* re.sub is literals followed by one greedy quantifier, so the backtracking
\* matcher returns its longest match.
MatchEnd(re, s, pos) ==
    LET hit == {a \in 1..Len(re) : EndsSeq(re[a], 1, s, pos) # {}}
    IN  IF hit = {} THEN 0
        ELSE SetMax(EndsSeq(re[CHOOSE a \in hit : \A b \in hit : a <= b], 1, s, pos))

\* re.sub(pattern, repl, text): the leftmost non-overlapping matches, each
\* replaced by repl (no pattern given to it matches the empty string)
RECURSIVE SubFrom(_, _, _, _)
SubFrom(re, repl, s, pos) ==
    IF pos > Len(s) THEN <<>>
    ELSE LET e == MatchEnd(re, s, pos)
         IN  IF e > pos THEN repl \o SubFrom(re, repl, s, e)
             ELSE <<s[pos]>> \o SubFrom(re, repl, s, pos + 1)

Sub(re, repl, s) == SubFrom(re, repl, s, 1)

(***************************************************************************)
(* clean_text (predict.py and prepare.py hold the same function).          *)
(***************************************************************************)
\* r'http\S+|www\S+|https\S+'
url_sub_pattern ==
    << Lit(<<104, 116, 116, 112>>) \o <<NotCls(Whitespace, 1, -1)>>,
       Lit(<<119, 119, 119>>) \o <<NotCls(Whitespace, 1, -1)>>,
       Lit(<<104, 116, 116, 112, 115>>) \o <<NotCls(Whitespace, 1, -1)>> >>

\* r'\s+'
space_pattern == << <<Cls(Whitespace, 1, -1)>> >>

\* text.lower(), then the URLs removed, then whitespace runs collapsed and
\* the ends stripped
clean_text_swapped(t) ==
    Sub(url_sub_pattern, <<>>, Strip(Sub(space_pattern, <<32>>, Lower(t))))

clean_text_keep_host(t) ==
    Strip(Sub(space_pattern, <<32>>,
              Sub(<< Lit(<<104, 116, 116, 112>>) \o <<Cls({115}, 0, 1)>>
                        \o Lit(<<58, 47, 47>>),
                     Lit(<<119, 119, 119, 46>>) >>, <<>>, Lower(t))))

clean_text_no_strip(t) ==
    Sub(space_pattern, <<32>>, Sub(url_sub_pattern, <<>>, Lower(t)))

\* clean_text without text.lower()
clean_text_no_lower(t) ==
    Strip(Sub(space_pattern, <<32>>, Sub(url_sub_pattern, <<>>, t)))

clean_text(t) ==
    Strip(Sub(space_pattern, <<32>>, Sub(url_sub_pattern, <<>>, Lower(t))))


(***************************************************************************)
(* Numbers.  A field of a feature row is a Python int, the float of a true *)
(* division a / b (the number num / den), numpy's nan, or the              *)
(* ZeroDivisionError a division by zero raises instead of returning.       *)
(***************************************************************************)
PyInt(n) == [tag |-> "int", num |-> n, den |-> 1]
PyFloat(n, d) == [tag |-> "float", num |-> n, den |-> d]
NaN == [tag |-> "nan", num |-> 0, den |-> 0]

\* a / b
PyDiv(a, b) ==
    IF b = 0 THEN [tag |-> "ZeroDivisionError", num |-> a, den |-> 0]
    ELSE PyFloat(a, b)

RECURSIVE SumLen(_)
SumLen(ws) == IF ws = <<>> THEN 0 ELSE Len(Head(ws)) + SumLen(Tail(ws))

\* np.mean([len(word) for word in words]): the mean of no numbers is nan
\* (numpy warns and returns sum / 0)
NpMean(ws) == IF ws = <<>> THEN NaN ELSE PyFloat(SumLen(ws), Len(ws))

\* np.array(...) of int and float entries holds floats
ToFloat(v) == IF v.tag = "int" THEN PyFloat(v.num, 1) ELSE v

IsZero(v) == v.tag \in {"int", "float"} /\ v.num = 0
IsOne(v) == v.tag \in {"int", "float"} /\ v.num = v.den
IsNumeric(v) == v.tag \in {"float", "nan"}

\* 1 if cond else 0
Flag(cond) == IF cond THEN PyInt(1) ELSE PyInt(0)

(***************************************************************************)
(* SpamFeatureExtractor.__init__: the keyword lists and compiled patterns. *)
(***************************************************************************)
russian_spam_keywords_init ==
    << <<1089, 1088, 1086, 1095, 1085, 1086>>,                         \* срочно
       <<1074, 1085, 1080, 1084, 1072, 1085, 1080, 1077>>,             \* внимание
       <<1074, 1099, 1080, 1075, 1088, 1072, 1083, 1080>>,             \* выиграли
       <<1087, 1086, 1079, 1076, 1088, 1072, 1074, 1083, 1103, 1077, 1084>>, \* поздравляем
       <<1087, 1088, 1080, 1079>>,                                     \* приз
       <<1073, 1077, 1089, 1087, 1083, 1072, 1090, 1085, 1086>>,       \* бесплатно
       <<1072, 1082, 1094, 1080, 1103>>,                               \* акция
       <<1089, 1082, 1080, 1076, 1082, 1072>>,                         \* скидка
       <<1079, 1072, 1073, 1083, 1086, 1082, 1080, 1088, 1086, 1074, 1072, 1085>>, \* заблокирован
       <<1087, 1086, 1079, 1074, 1086, 1085, 1080, 1090, 1077>>,       \* позвоните
       <<1082, 1088, 1077, 1076, 1080, 1090>>,                         \* кредит
       <<1079, 1072, 1081, 1084>>,                                     \* займ
       <<1086, 1076, 1086, 1073, 1088, 1077, 1085>>,                   \* одобрен
       <<1076, 1077, 1085, 1100, 1075, 1080>>,                         \* деньги
       <<1088, 1091, 1073, 1083>>,                                     \* рубл
       <<1090, 1099, 1089, 1103, 1095>>,                               \* тысяч
       <<1079, 1072, 1088, 1072, 1073, 1086, 1090, 1086, 1082>>,       \* заработок
       <<1076, 1086, 1093, 1086, 1076>>,                               \* доход
       <<1087, 1086, 1083, 1091, 1095>>,                               \* получ
       <<1074, 1099, 1087, 1083, 1072, 1090>>,                         \* выплат
       <<1073, 1086, 1085, 1091, 1089>> >>                             \* бонус

english_spam_keywords_init ==
    << <<119, 105, 110, 110, 101, 114>>,                               \* winner
       <<99, 111, 110, 103, 114, 97, 116, 117, 108, 97, 116, 105, 111, 110, 115>>, \* congratulations
       <<119, 111, 110>>,                                              \* won
       <<112, 114, 105, 122, 101>>,                                    \* prize
       <<102, 114, 101, 101>>,                                         \* free
       <<117, 114, 103, 101, 110, 116>>,                               \* urgent
       <<99, 108, 105, 99, 107>>,                                      \* click
       <<99, 97, 108, 108>>,                                           \* call
       <<116, 101, 120, 116>>,                                         \* text
       <<99, 108, 97, 105, 109>>,                                      \* claim
       <<108, 105, 109, 105, 116, 101, 100>>,                          \* limited
       <<111, 102, 102, 101, 114>>,                                    \* offer
       <<103, 117, 97, 114, 97, 110, 116, 101, 101, 100>>,             \* guaranteed
       <<99, 97, 115, 104>>,                                           \* cash
       <<99, 114, 101, 100, 105, 116>>,                                \* credit
       <<108, 111, 97, 110>> >>                                        \* loan

\* r'http[s]?://|www\.|\.com|\.ru|\.net|\.org'
url_pattern_init ==
    << Lit(<<104, 116, 116, 112>>) \o <<Cls({115}, 0, 1)>> \o Lit(<<58, 47, 47>>),
       Lit(<<119, 119, 119, 46>>),
       Lit(<<46, 99, 111, 109>>),
       Lit(<<46, 114, 117>>),
       Lit(<<46, 110, 101, 116>>),
       Lit(<<46, 111, 114, 103>>) >>

\* r'8-\d{3,4}-\d{3,4}|\+7-\d{3}-\d{3}-\d{2}-\d{2}'
russian_phone_pattern_init ==
    << Lit(<<56, 45>>) \o <<Cls(Digits, 3, 4)>> \o Lit(<<45>>) \o <<Cls(Digits, 3, 4)>>,
       Lit(<<43, 55, 45>>) \o <<Cls(Digits, 3, 3)>> \o Lit(<<45>>)
           \o <<Cls(Digits, 3, 3)>> \o Lit(<<45>>) \o <<Cls(Digits, 2, 2)>>
           \o Lit(<<45>>) \o <<Cls(Digits, 2, 2)>> >>

\* r'\d{3,4}-\d{3,4}|\d{5,}'
intl_phone_pattern_init ==
    << <<Cls(Digits, 3, 4)>> \o Lit(<<45>>) \o <<Cls(Digits, 3, 4)>>,
       <<Cls(Digits, 5, -1)>> >>

\* r'\d+\s?(руб|тыс|млн|₽)|р\.|рубл'
money_pattern_ru_init ==
    << << Cls(Digits, 1, -1), Cls(Whitespace, 0, 1),
          Grp(<< Lit(<<1088, 1091, 1073>>), Lit(<<1090, 1099, 1089>>),
                 Lit(<<1084, 1083, 1085>>), Lit(<<8381>>) >>) >>,
       Lit(<<1088, 46>>),
       Lit(<<1088, 1091, 1073, 1083>>) >>

\* r'\$\d+|£\d+|€\d+|\d+\s?(dollar|pound|euro)'
money_pattern_en_init ==
    << Lit(<<36>>) \o <<Cls(Digits, 1, -1)>>,
       Lit(<<163>>) \o <<Cls(Digits, 1, -1)>>,
       Lit(<<8364>>) \o <<Cls(Digits, 1, -1)>>,
       << Cls(Digits, 1, -1), Cls(Whitespace, 0, 1),
          Grp(<< Lit(<<100, 111, 108, 108, 97, 114>>), Lit(<<112, 111, 117, 110, 100>>),
                 Lit(<<101, 117, 114, 111>>) >>) >> >>

SpamFeatureExtractor_init ==
    [ russian_spam_keywords |-> russian_spam_keywords_init,
      english_spam_keywords |-> english_spam_keywords_init,
      url_pattern |-> url_pattern_init,
      russian_phone_pattern |-> russian_phone_pattern_init,
      intl_phone_pattern |-> intl_phone_pattern_init,
      money_pattern_ru |-> money_pattern_ru_init,
      money_pattern_en |-> money_pattern_en_init ]

(***************************************************************************)
(* The patterns transform gives to re.search inline.                       *)
(***************************************************************************)
\* '[а-яА-Я]'
cyrillic_pattern == << <<Cls(CyrLower \cup CyrUpper, 1, 1)>> >>

\* '[a-zA-Z]'
latin_pattern == << <<Cls(LatinLower \cup LatinUpper, 1, 1)>> >>

\* r'(выигра|won|winner)'
win_pattern ==
    << <<Grp(<< Lit(<<1074, 1099, 1080, 1075, 1088, 1072>>), Lit(<<119, 111, 110>>),
                Lit(<<119, 105, 110, 110, 101, 114>>) >>)>> >>

\* r'(срочно|urgent|attention|внимание)'
urgent_pattern ==
    << <<Grp(<< Lit(<<1089, 1088, 1086, 1095, 1085, 1086>>),
                Lit(<<117, 114, 103, 101, 110, 116>>),
                Lit(<<97, 116, 116, 101, 110, 116, 105, 111, 110>>),
                Lit(<<1074, 1085, 1080, 1084, 1072, 1085, 1080, 1077>>) >>)>> >>

\* r'(бесплатно|free|даром)'
free_pattern ==
    << <<Grp(<< Lit(<<1073, 1077, 1089, 1087, 1083, 1072, 1090, 1085, 1086>>),
                Lit(<<102, 114, 101, 101>>),
                Lit(<<1076, 1072, 1088, 1086, 1084>>) >>)>> >>

\* r'(кликни|нажми|click|tap)'
click_pattern ==
    << <<Grp(<< Lit(<<1082, 1083, 1080, 1082, 1085, 1080>>),
                Lit(<<1085, 1072, 1078, 1084, 1080>>),
                Lit(<<99, 108, 105, 99, 107>>), Lit(<<116, 97, 112>>) >>)>> >>

\* r'(заблокирован|blocked|suspend)'
block_pattern ==
    << <<Grp(<< Lit(<<1079, 1072, 1073, 1083, 1086, 1082, 1080, 1088, 1086, 1074, 1072, 1085>>),
                Lit(<<98, 108, 111, 99, 107, 101, 100>>),
                Lit(<<115, 117, 115, 112, 101, 110, 100>>) >>)>> >>


(***************************************************************************)
(* The 21 entries of feature_dict, as transform computes them from text    *)
(* and text_lower = text.lower().                                          *)
(***************************************************************************)
length(t) == PyInt(Len(t))

word_count(t) == PyInt(Len(Split(t)))

avg_word_length_unguarded(t) == NpMean(Split(t))

\* np.mean([len(word) for word in text.split()]) if text else 0
avg_word_length(t) == IF t # <<>> THEN NpMean(Split(t)) ELSE PyInt(0)

has_url(s, t_lower) == Flag(Search(s.url_pattern, t_lower))

has_russian_phone(s, t) == Flag(Search(s.russian_phone_pattern, t))

has_intl_phone(s, t) == Flag(Search(s.intl_phone_pattern, t))

has_money_ru(s, t_lower) == Flag(Search(s.money_pattern_ru, t_lower))

has_money_en(s, t_lower) == Flag(Search(s.money_pattern_en, t_lower))

exclamation_count(t) == PyInt(Count(t, 33))

question_count(t) == PyInt(Count(t, 63))

caps_ratio_unguarded(t) == PyDiv(CountUpper(t), Len(t))

\* the share of uppercase characters among the characters that are not spaces
caps_ratio_nonspace(t) ==
    IF t # <<>> THEN PyDiv(CountUpper(t), Len(t) - Count(t, 32)) ELSE PyInt(0)

\* sum(1 for c in text if c.isupper()) / len(text) if text else 0
caps_ratio(t) == IF t # <<>> THEN PyDiv(CountUpper(t), Len(t)) ELSE PyInt(0)

\* sum(1 for c in text if c.isdigit()) / len(text) if text else 0
digit_ratio(t) == IF t # <<>> THEN PyDiv(CountDigit(t), Len(t)) ELSE PyInt(0)

\* the number of positions of s at which w occurs
Occurrences(w, s) ==
    Cardinality({i \in 1..(Len(s) - Len(w) + 1) : SubSeq(s, i, i + Len(w) - 1) = w})

\* a count of keyword occurrences instead of keywords
RECURSIVE KeywordCount_occurrences(_, _)
KeywordCount_occurrences(keywords, t_lower) ==
    IF keywords = <<>> THEN 0
    ELSE Occurrences(Head(keywords), t_lower)
             + KeywordCount_occurrences(Tail(keywords), t_lower)

\* sum(1 for word in keywords if word in text_lower)
RECURSIVE KeywordCount(_, _)
KeywordCount(keywords, t_lower) ==
    IF keywords = <<>> THEN 0
    ELSE (IF IsSubstring(Head(keywords), t_lower) THEN 1 ELSE 0)
             + KeywordCount(Tail(keywords), t_lower)

russian_spam_words(s, t_lower) == PyInt(KeywordCount(s.russian_spam_keywords, t_lower))

english_spam_words(s, t_lower) == PyInt(KeywordCount(s.english_spam_keywords, t_lower))

has_cyrillic(t) == Flag(Search(cyrillic_pattern, t))

has_latin(t) == Flag(Search(latin_pattern, t))

has_win_pattern(t_lower) == Flag(Search(win_pattern, t_lower))

has_urgent_pattern(t_lower) == Flag(Search(urgent_pattern, t_lower))

has_free_pattern(t_lower) == Flag(Search(free_pattern, t_lower))

has_click_pattern(t_lower) == Flag(Search(click_pattern, t_lower))

has_block_pattern(t_lower) == Flag(Search(block_pattern, t_lower))

\* the dict of one message, in insertion order: <<key, value>> pairs
feature_dict(s, t) ==
    LET t_lower == Lower(t)
    IN  << <<"length", length(t)>>,
           <<"word_count", word_count(t)>>,
           <<"avg_word_length", avg_word_length(t)>>,
           <<"has_url", has_url(s, t_lower)>>,
           <<"has_russian_phone", has_russian_phone(s, t)>>,
           <<"has_intl_phone", has_intl_phone(s, t)>>,
           <<"has_money_ru", has_money_ru(s, t_lower)>>,
           <<"has_money_en", has_money_en(s, t_lower)>>,
           <<"exclamation_count", exclamation_count(t)>>,
           <<"question_count", question_count(t)>>,
           <<"caps_ratio", caps_ratio(t)>>,
           <<"digit_ratio", digit_ratio(t)>>,
           <<"russian_spam_words", russian_spam_words(s, t_lower)>>,
           <<"english_spam_words", english_spam_words(s, t_lower)>>,
           <<"has_cyrillic", has_cyrillic(t)>>,
           <<"has_latin", has_latin(t)>>,
           <<"has_win_pattern", has_win_pattern(t_lower)>>,
           <<"has_urgent_pattern", has_urgent_pattern(t_lower)>>,
           <<"has_free_pattern", has_free_pattern(t_lower)>>,
           <<"has_click_pattern", has_click_pattern(t_lower)>>,
           <<"has_block_pattern", has_block_pattern(t_lower)>> >>

\* list(feature_dict.values())
DictValues(d) == [i \in 1..Len(d) |-> d[i][2]]

\* feature_dict[key]
DictGet(d, key) == d[CHOOSE i \in 1..Len(d) : d[i][1] = key][2]

get_feature_names_swapped ==
    << "length", "word_count", "avg_word_length",
       "has_url", "has_russian_phone", "has_intl_phone",
       "has_money_ru", "has_money_en",
       "exclamation_count", "question_count",
       "caps_ratio", "digit_ratio",
       "russian_spam_words", "english_spam_words",
       "has_latin", "has_cyrillic",
       "has_win_pattern", "has_urgent_pattern",
       "has_free_pattern", "has_click_pattern", "has_block_pattern" >>

get_feature_names ==
    << "length", "word_count", "avg_word_length",
       "has_url", "has_russian_phone", "has_intl_phone",
       "has_money_ru", "has_money_en",
       "exclamation_count", "question_count",
       "caps_ratio", "digit_ratio",
       "russian_spam_words", "english_spam_words",
       "has_cyrillic", "has_latin",
       "has_win_pattern", "has_urgent_pattern",
       "has_free_pattern", "has_click_pattern", "has_block_pattern" >>

(***************************************************************************)
(* fit, transform, add_spam_features.                                      *)
(***************************************************************************)
\* What a call returned: the rows of the array, or that it raised.
Returned(rows) == [raised |-> FALSE, rows |-> rows]
Raised == [raised |-> TRUE, rows |-> <<>>]
None == Returned(<<>>)

fit_learns(s, B) ==
    [s EXCEPT !.english_spam_keywords =
                  IF B = <<>> THEN @ ELSE Append(@, Lower(B[1]))]

\* fit returns self, which it leaves as it is
fit(s, B) == s

\* for text in X: ... features.append(list(feature_dict.values()))
RECURSIVE transform_loop(_, _, _, _)
transform_loop(s, B, i, feats) ==
    IF i > Len(B) THEN feats
    ELSE transform_loop(s, B, i + 1, Append(feats, DictValues(feature_dict(s, B[i]))))

ArrayOf(feats) ==
    IF \E r \in 1..Len(feats) : \E i \in 1..Len(feats[r]) :
           feats[r][i].tag = "ZeroDivisionError"
    THEN Raised
    ELSE Returned([r \in 1..Len(feats) |->
                      [i \in 1..Len(feats[r]) |-> ToFloat(feats[r][i])]])

RECURSIVE transform_loop_prepend(_, _, _, _)
transform_loop_prepend(s, B, i, feats) ==
    IF i > Len(B) THEN feats
    ELSE transform_loop_prepend(s, B, i + 1,
                                <<DictValues(feature_dict(s, B[i]))>> \o feats)

transform_prepend(s, B) == ArrayOf(transform_loop_prepend(s, B, 1, <<>>))

\* np.array(features): an exception raised for a message ends the call
transform(s, B) == ArrayOf(transform_loop(s, B, 1, <<>>))

\* SpamFeatureExtractor().fit_transform(messages): fit(X).transform(X)
add_spam_features(B) ==
    transform(fit(SpamFeatureExtractor_init, B), B)

(***************************************************************************)
(* Inputs.  A message is a concatenation of pieces.                        *)
(***************************************************************************)
\* ' ', '\n', '!', 'Free', 'ё', 'Ж', '7', '中', '.ru'
ExtractPieces ==
    { <<32>>, <<10>>, <<33>>, <<70, 114, 101, 101>>, <<1105>>, <<1046>>,
      <<55>>, <<20013>>, <<46, 114, 117>> }

ExtractMessages == {Flatten(ps) : ps \in SeqsUpTo(ExtractPieces, MaxPieces)}

\* 'http', 'WWW', 's:', ' ', '\n', 'ℂ', 'a', 'w'
CleanPieces ==
    { <<104, 116, 116, 112>>, <<87, 87, 87>>, <<115, 58>>, <<32>>, <<10>>,
      <<8450>>, <<97>>, <<119>> }

CleanMessages == {Flatten(ps) : ps \in SeqsUpTo(CleanPieces, MaxCleanPieces)}

\* ' ', 'Free 7!'
BatchMessages == { <<32>>, <<70, 114, 101, 101, 32, 55, 33>> }

Batches == SeqsUpTo(BatchMessages, MaxBatch)

(***************************************************************************)
(* The prediction service: load_model and predict (src/src/predict.py),    *)
(* the /classify handler (src/ui/app.py) and the bundle file that          *)
(* train_model writes (src/src/train.py, src/src/train_enhanced.py).       *)
(*                                                                         *)
(* A fitted vectorizer and classifier are deterministic: the label is a    *)
(* function of the cleaned text.  A bundle is such a function: the text is *)
(* 'spam' when it holds one of the bundle's tokens, and the bundle's other *)
(* label when it holds none.                                               *)
(***************************************************************************)
Labels == {"spam", "ham"}

\* no file at model_path
Missing == [exists |-> FALSE, spam_tokens |-> {}, otherwise |-> "ham"]

\* pickle.dump({'model': model, 'vectorizer': vectorizer}, f)
Bundle(tokens, label) == [exists |-> TRUE, spam_tokens |-> tokens, otherwise |-> label]

\* 'free'
SpamTokens == { {}, {<<102, 114, 101, 101>>} }

Bundles == {Bundle(tokens, label) : tokens \in SpamTokens, label \in Labels}

\* Python values handed to predict: a str, or an int (from a JSON body)
PyStr(s) == [type |-> "str", chars |-> s, num |-> 0]
PyNum(n) == [type |-> "int", chars |-> <<>>, num |-> n]

\* bool(v)
Truthy(v) == IF v.type = "str" THEN v.chars # <<>> ELSE v.num # 0

\* what a call of predict did: the exception it raised ("" if none), the value
\* it returned, and whether load_model opened and unpickled the file
PredictRaised(e, loaded) == [raised |-> e, value |-> "", loaded |-> loaded]
PredictReturned(v) == [raised |-> "", value |-> v, loaded |-> TRUE]
NoOutcome == [raised |-> "", value |-> "", loaded |-> FALSE]

\* model.predict(vectorizer.transform([cleaned_text]))[0]
model_predict(bundle, cleaned_text) ==
    IF \E w \in bundle.spam_tokens : IsSubstring(w, cleaned_text)
    THEN "spam" ELSE bundle.otherwise

\* predict that refuses a text that is empty once cleaned
predict_rejects_empty(v, file) ==
    IF ~file.exists THEN PredictRaised("FileNotFoundError", FALSE)
    ELSE IF v.type # "str" THEN PredictRaised("AttributeError", TRUE)
    ELSE IF clean_text(v.chars) = <<>> THEN PredictRaised("ValueError", TRUE)
    ELSE PredictReturned(model_predict(file, clean_text(v.chars)))

\* predict that classifies the text of the call before, left in a buffer
predict_stale(v, file) ==
    IF ~file.exists THEN PredictRaised("FileNotFoundError", FALSE)
    ELSE IF v.type # "str" THEN PredictRaised("AttributeError", TRUE)
    ELSE IF calls # <<>>
         THEN PredictReturned(model_predict(file, clean_text(calls[Len(calls)].text)))
    ELSE PredictReturned(model_predict(file, clean_text(v.chars)))

\* predict(text, model_path): load_model opens the file (FileNotFoundError if
\* there is none) and unpickles it, on every call; clean_text calls
\* text.lower() (AttributeError if text is no str)
predict(v, file) ==
    IF ~file.exists THEN PredictRaised("FileNotFoundError", FALSE)
    ELSE IF v.type # "str" THEN PredictRaised("AttributeError", TRUE)
    ELSE PredictReturned(model_predict(file, clean_text(v.chars)))

\* POST /classify requests: a JSON body that is an object with or without a
\* 'message' member, a JSON body that is no object (an array), or form data
\* with or without a 'message' field
JsonObject(has, v) == [is_json |-> TRUE, body |-> "object", has_message |-> has, message |-> v]
JsonArray == [is_json |-> TRUE, body |-> "array", has_message |-> FALSE, message |-> PyStr(<<>>)]
Form(has, v) == [is_json |-> FALSE, body |-> "form", has_message |-> has, message |-> v]
NoRequest == [is_json |-> FALSE, body |-> "", has_message |-> FALSE, message |-> PyStr(<<>>)]

\* an HTTP response, or what a direct call of predict gave (status 0)
Response(req, status, error, message, label, out, called) ==
    [ req |-> req, status |-> status, error |-> error, message |-> message,
      result |-> label, is_spam |-> (label = "spam"), out |-> out,
      called |-> called ]

NoResponse == Response(NoRequest, 0, "", PyStr(<<>>), "", NoOutcome, FALSE)

\* classify(): data = request.get_json(); message = data.get('message', '')
\* raises AttributeError outside the try block when data is no dict, which
\* Flask answers with 500 Internal Server Error
classify(req, file) ==
    IF req.is_json /\ req.body # "object"
    THEN Response(req, 500, "Internal Server Error", PyStr(<<>>), "", NoOutcome, FALSE)
    ELSE LET message == IF req.has_message THEN req.message ELSE PyStr(<<>>)
         IN  IF ~Truthy(message)
             THEN Response(req, 400, "No message provided", PyStr(<<>>), "", NoOutcome, FALSE)
             ELSE LET out == predict(message, file)
                  IN  IF out.raised = ""
                      THEN Response(req, 200, "", message, out.value, out, TRUE)
                      ELSE IF out.raised = "FileNotFoundError"
                      THEN Response(req, 500, "Model not found. Please train the model first.",
                                    PyStr(<<>>), "", out, TRUE)
                      ELSE Response(req, 500, out.raised, PyStr(<<>>), "", out, TRUE)

\* '', 'Free', '42'
ServiceTexts == { <<>>, <<70, 114, 101, 101>>, <<52, 50>> }

ServiceValues == {PyStr(t) : t \in ServiceTexts} \cup {PyNum(5)}

ServiceRequests ==
    {JsonObject(TRUE, v) : v \in ServiceValues}
        \cup {JsonObject(FALSE, PyStr(<<>>)), JsonArray, Form(FALSE, PyStr(<<>>))}
        \cup {Form(TRUE, PyStr(t)) : t \in ServiceTexts}

\* '', ' \n', '!?', '42', 'Жди', 'www.a.ru', 'Free  free www.a.ru 42!'
EdgeTexts ==
    { <<>>, <<32, 10>>, <<33, 63>>, <<52, 50>>, <<1046, 1076, 1080>>,
      <<119, 119, 119, 46, 97, 46, 114, 117>>,
      <<70, 114, 101, 101, 32, 32, 102, 114, 101, 101, 32, 119, 119, 119, 46,
        97, 46, 114, 117, 32, 52, 50, 33>> }


(***************************************************************************)
(* The data files (data/*.csv) and the pandas / scikit-learn calls of the  *)
(* merge scripts and of prepare_data.  A file holds an encoding and rows;  *)
(* a row is a label, the message as the bytes written to the file, and the *)
(* 'language' column ("" in a file without one).  The columns v3..v5 are   *)
(* never read back and are left out.                                       *)
(***************************************************************************)
\* one code point as UTF-8 (code points below U+10000)
Utf8Encode(c) ==
    IF c < 128 THEN <<c>>
    ELSE IF c < 2048 THEN <<192 + (c \div 64), 128 + (c % 64)>>
    ELSE <<224 + (c \div 4096), 128 + ((c \div 64) % 64), 128 + (c % 64)>>

\* str.encode(encoding); latin-1 maps a code point below 256 to that byte
Encode(s, encoding) ==
    IF encoding = "latin-1" THEN s
    ELSE Flatten([i \in 1..Len(s) |-> Utf8Encode(s[i])])

IsContinuation(b, pos) == pos <= Len(b) /\ b[pos] \in 128..191

\* bytes.decode('utf-8'); -2 stands where no character can be decoded
\* (UnicodeDecodeError)
RECURSIVE Utf8DecodeFrom(_, _)
Utf8DecodeFrom(b, pos) ==
    IF pos > Len(b) THEN <<>>
    ELSE IF b[pos] < 128 THEN <<b[pos]>> \o Utf8DecodeFrom(b, pos + 1)
    ELSE IF b[pos] \in 194..223 /\ IsContinuation(b, pos + 1)
         THEN <<(b[pos] - 192) * 64 + (b[pos + 1] - 128)>> \o Utf8DecodeFrom(b, pos + 2)
    ELSE IF b[pos] \in 224..239 /\ IsContinuation(b, pos + 1) /\ IsContinuation(b, pos + 2)
         THEN <<(b[pos] - 224) * 4096 + (b[pos + 1] - 128) * 64 + (b[pos + 2] - 128)>>
                  \o Utf8DecodeFrom(b, pos + 3)
    ELSE <<-2>> \o Utf8DecodeFrom(b, pos + 1)

\* bytes.decode(encoding); latin-1 maps every byte to the code point of its value
Decode(b, encoding) ==
    IF encoding = "latin-1" THEN b ELSE Utf8DecodeFrom(b, 1)

\* a missing value (float nan) in a DataFrame cell
NaNCell == <<-1>>

\* the fields read_csv takes for missing values, among those the model's
\* messages can spell: the empty field and 'NA'
NaStrings == { <<>>, <<78, 65>> }

NoFile == [exists |-> FALSE, encoding |-> "", rows |-> <<>>]
File(encoding, rows) == [exists |-> TRUE, encoding |-> encoding, rows |-> rows]

CsvRow(label, message, language) == [v1 |-> label, v2 |-> message, language |-> language]

\* pd.read_csv(path, encoding=encoding): the bytes decoded, the default
\* missing-value fields turned into nan
read_csv(file, encoding) ==
    [i \in 1..Len(file.rows) |->
        CsvRow(file.rows[i].v1,
               IF Decode(file.rows[i].v2, encoding) \in NaStrings THEN NaNCell
               ELSE Decode(file.rows[i].v2, encoding),
               file.rows[i].language)]

\* df.to_csv(path, index=False, encoding=encoding): nan is written as the
\* empty field
to_csv(df, encoding) ==
    File(encoding,
         [i \in 1..Len(df) |->
             CsvRow(df[i].v1,
                    IF df[i].v2 = NaNCell THEN <<>> ELSE Encode(df[i].v2, encoding),
                    df[i].language)])

\* df[['v1', 'v2']] with df['language'] = language
with_language(df, language) ==
    [i \in 1..Len(df) |-> CsvRow(df[i].v1, df[i].v2, language)]

\* the columns v1 and v2 of a frame
column_v1(df) == [i \in 1..Len(df) |-> df[i].v1]
column_v2(df) == [i \in 1..Len(df) |-> df[i].v2]

\* a frame made of two columns: the rows are paired by index
frame_of(v1, v2) == [i \in 1..Len(v1) |-> CsvRow(v1[i], v2[i], "")]

\* a concatenation that skips what the first part already holds
concat_skip_present(a, b) ==
    LET new == {i \in 1..Len(b) : \A j \in 1..Len(a) : a[j] # b[i]}
        nth(k) == CHOOSE i \in new : Cardinality({j \in new : j < i}) = k - 1
    IN  a \o [k \in 1..Cardinality(new) |-> b[nth(k)]]

\* pd.concat([a, b], ignore_index=True)
concat(a, b) == a \o b

\* df.sample(frac=1, random_state=42).reset_index(drop=True): the rows in the
\* order of a permutation that the seed and the number of rows fix.  The
\* model tries two permutations: the reversal and the rotation by one.
Shuffles(n) ==
    { [i \in 1..n |-> n + 1 - i], [i \in 1..n |-> (i % n) + 1] }

sample(df, p) == [i \in 1..Len(df) |-> df[p[i]]]

\* the rows of df at the indices I, in order
Pick(df, I) ==
    LET nth(k) == CHOOSE i \in I : Cardinality({j \in I : j < i}) = k - 1
    IN  [k \in 1..Cardinality(I) |-> df[nth(k)]]

\* a frame that keeps the last row of each message
drop_duplicates_keep_last(df) ==
    Pick(df, {i \in 1..Len(df) : \A j \in (i + 1)..Len(df) : df[j].v2 # df[i].v2})

\* df.drop_duplicates(subset=['message']): the first row of each message
drop_duplicates(df) ==
    Pick(df, {i \in 1..Len(df) : \A j \in 1..(i - 1) : df[j].v2 # df[i].v2})

\* df[df['message'].str.len() > 0]
non_empty(df) == Pick(df, {i \in 1..Len(df) : Len(df[i].v2) > 0})

\* df['message'].apply(clean_text)
apply_clean_text(df) ==
    [i \in 1..Len(df) |-> CsvRow(df[i].v1, clean_text(df[i].v2), df[i].language)]

\* train_test_split(df, test_size=0.2, random_state=42, stratify=df['label']):
\* n_test = ceil(0.2 * n), n_train = n - n_test
n_test(df) == (Len(df) + 4) \div 5

n_classes(df) == Cardinality({df[i].v1 : i \in 1..Len(df)})

\* the split raises ValueError when a part would be empty or smaller than the
\* number of classes, or when a class has fewer than two rows
split_raises(df) ==
    \/ Len(df) - n_test(df) < 1
    \/ n_test(df) < n_classes(df)
    \/ Len(df) - n_test(df) < n_classes(df)
    \/ \E i \in 1..Len(df) : Cardinality({j \in 1..Len(df) : df[j].v1 = df[i].v1}) < 2

\* the index sets the test part may be: the seed fixes one of them
TestSets(df) == {T \in SUBSET (1..Len(df)) : Cardinality(T) = n_test(df)}

\* what prepare_data did: the exception it raised ("" if none)
NotPrepared == [ran |-> FALSE, raised |-> "", input |-> NoFile]
Prepared(raised, input) == [ran |-> TRUE, raised |-> raised, input |-> input]

\* df = pd.read_csv(input_path, encoding='latin-1') ... drop_duplicates ...
\* the frame handed to train_test_split; clean_text raises AttributeError
\* for a nan cell
prepare_raises(file) ==
    \E i \in 1..Len(file.rows) : read_csv(file, "latin-1")[i].v2 = NaNCell

prepare_frame(file) ==
    non_empty(drop_duplicates(apply_clean_text(read_csv(file, "latin-1"))))

(***************************************************************************)
(* Operations.                                                             *)
(***************************************************************************)
Fit(B) ==
    /\ self' = fit(self, B)
    /\ op' = "fit"
    /\ UNCHANGED <<X, features, names, text, cleaned>>
    /\ UNCHANGED <<serviceVars, dataVars>>

Transform(B) ==
    /\ features' = transform(self, B)
    /\ X' = B
    /\ op' = "transform"
    /\ UNCHANGED <<self, names, text, cleaned>>
    /\ UNCHANGED <<serviceVars, dataVars>>

AddSpamFeatures(B) ==
    /\ features' = add_spam_features(B)
    /\ X' = B
    /\ op' = "add_spam_features"
    /\ UNCHANGED <<self, names, text, cleaned>>
    /\ UNCHANGED <<serviceVars, dataVars>>

GetFeatureNames ==
    /\ names' = get_feature_names
    /\ op' = "get_feature_names"
    /\ UNCHANGED <<self, X, features, text, cleaned>>
    /\ UNCHANGED <<serviceVars, dataVars>>

\* clean_text(text)
CleanText ==
    /\ op = "init"
    /\ cleaned' = clean_text(text)
    /\ op' = "clean_text"
    /\ UNCHANGED <<self, X, features, names, text>>
    /\ UNCHANGED <<serviceVars, dataVars>>

\* predict with a bundle of train_enhanced: vectorizer.transform([cleaned_text])
\* hands the cleaned text to SpamFeatureExtractor.transform
ExtractCleaned ==
    /\ op = "clean_text"
    /\ Transform(<<cleaned>>)

\* clean_text(cleaned): a text that is clean_text's output is cleaned again
CleanTextAgain ==
    /\ op \in {"clean_text", "clean_text_again"}
    /\ cleaned' = clean_text(cleaned)
    /\ op' = "clean_text_again"
    /\ UNCHANGED <<self, X, features, names, text>>
    /\ UNCHANGED <<serviceVars, dataVars>>

\* what a call of predict leaves behind: one more load if the file was
\* unpickled, and the answer in the log of answers given from this bundle file
AfterPredict(v, out) ==
    /\ loads' = IF out.loaded THEN loads + 1 ELSE loads
    /\ calls' = IF out.raised = ""
                THEN Append(calls, [text |-> v.chars, label |-> out.value])
                ELSE calls

\* predict(text) called directly (main, the tests)
Predict(v) ==
    /\ loads < MaxLoads
    /\ LET out == predict(v, model_pkl)
       IN  /\ response' = Response(NoRequest, 0, out.raised, v, out.value, out, TRUE)
           /\ AfterPredict(v, out)
    /\ UNCHANGED <<model_pkl, extractorVars, dataVars>>

\* POST /classify
Classify(req) ==
    /\ loads < MaxLoads
    /\ response' = classify(req, model_pkl)
    /\ IF response'.called
       THEN AfterPredict(req.message, response'.out)
       ELSE UNCHANGED <<loads, calls>>
    /\ UNCHANGED <<model_pkl, extractorVars, dataVars>>

\* train_model: the bundle file is written anew
TrainModel(b) ==
    /\ model_pkl' = b
    /\ calls' = <<>>
    /\ UNCHANGED <<loads, response, extractorVars, dataVars>>

NoService ==
    /\ model_pkl = Missing
    /\ calls = <<>>
    /\ loads = 0
    /\ response = NoResponse

\* an entry of the history of merge runs: whether the run replaced raw.csv,
\* the files it read, the file of merged rows it wrote, and the backup files
\* it created
Run(script, update_raw, english, russian, written, backups) ==
    [ script |-> script, update_raw |-> update_raw, english |-> english,
      russian |-> russian, written |-> written, backups |-> backups ]

\* merge_data_simple.py, the whole script
MergeDataSimple ==
    /\ Len(history) < MaxRuns
    /\ LET make_backup == ~backup_simple.exists /\ raw_csv.exists
           df_english == read_csv(raw_csv, "latin-1")
           df_russian == read_csv(russian_csv, "utf-8")
           df_merged == frame_of(concat(column_v1(df_english), column_v1(df_russian)),
                                 concat(column_v2(df_english), column_v2(df_russian)))
       IN  \E p \in Shuffles(Len(df_merged)) :
              /\ backup_simple' =
                     IF make_backup THEN to_csv(read_csv(raw_csv, "latin-1"), "latin-1")
                     ELSE backup_simple
              /\ raw_csv' = to_csv(sample(df_merged, p), "utf-8")
              /\ history' = Append(history,
                     Run("merge_data_simple.py", TRUE, raw_csv, russian_csv, raw_csv',
                         IF make_backup THEN {"raw_english_only_backup.csv"} ELSE {}))
    /\ UNCHANGED <<russian_csv, backup_russian, multilingual_csv, train_csv, test_csv, prepared>>
    /\ UNCHANGED <<extractorVars, serviceVars>>

\* merge_russian_data.py, the whole script: create_backup(), merge_datasets()
\* and, with --update-raw, update_raw_file()
MergeRussianData(update_raw) ==
    /\ Len(history) < MaxRuns
    /\ LET make_backup == ~backup_russian.exists
           df_english == with_language(read_csv(raw_csv, "latin-1"), "en")
           df_russian == with_language(read_csv(russian_csv, "utf-8"), "ru")
           df_combined == concat(df_english, df_russian)
       IN  \E p \in Shuffles(Len(df_combined)) :
              /\ backup_russian' =
                     IF make_backup THEN to_csv(read_csv(raw_csv, "latin-1"), "latin-1")
                     ELSE backup_russian
              /\ multilingual_csv' = to_csv(sample(df_combined, p), "utf-8")
              /\ raw_csv' =
                     IF update_raw
                     THEN to_csv(frame_of(column_v1(read_csv(multilingual_csv', "utf-8")),
                                          column_v2(read_csv(multilingual_csv', "utf-8"))),
                                 "utf-8")
                     ELSE raw_csv
              /\ history' = Append(history,
                     Run("merge_russian_data.py", update_raw, raw_csv, russian_csv,
                         IF update_raw THEN raw_csv' ELSE multilingual_csv',
                         IF make_backup THEN {"raw_english_only.csv"} ELSE {}))
    /\ UNCHANGED <<russian_csv, backup_simple, train_csv, test_csv, prepared>>
    /\ UNCHANGED <<extractorVars, serviceVars>>

\* prepare_data(): nothing is written when clean_text or the split raises
PrepareData ==
    /\ ~prepared.ran
    /\ IF prepare_raises(raw_csv)
       THEN /\ prepared' = Prepared("AttributeError", raw_csv)
            /\ UNCHANGED <<train_csv, test_csv>>
       ELSE IF split_raises(prepare_frame(raw_csv))
       THEN /\ prepared' = Prepared("ValueError", raw_csv)
            /\ UNCHANGED <<train_csv, test_csv>>
       ELSE \E T \in TestSets(prepare_frame(raw_csv)) :
               /\ train_csv' = to_csv(Pick(prepare_frame(raw_csv),
                                           (1..Len(prepare_frame(raw_csv))) \ T), "utf-8")
               /\ test_csv' = to_csv(Pick(prepare_frame(raw_csv), T), "utf-8")
               /\ prepared' = Prepared("", raw_csv)
    /\ UNCHANGED <<raw_csv, russian_csv, backup_simple, backup_russian, multilingual_csv, history>>
    /\ UNCHANGED <<extractorVars, serviceVars>>

NoData ==
    /\ raw_csv = NoFile
    /\ russian_csv = NoFile
    /\ backup_simple = NoFile
    /\ backup_russian = NoFile
    /\ multilingual_csv = NoFile
    /\ train_csv = NoFile
    /\ test_csv = NoFile
    /\ history = <<>>
    /\ prepared = NotPrepared

InitCommon ==
    /\ self = SpamFeatureExtractor_init
    /\ features = None
    /\ names = <<>>
    /\ cleaned = <<>>
    /\ op = "init"

\* one extractor instance, called again and again with batches
Init ==
    /\ InitCommon
    /\ NoService
    /\ NoData
    /\ X = <<>>
    /\ text = <<>>

Next ==
    \/ \E B \in Batches : Fit(B) \/ Transform(B) \/ AddSpamFeatures(B)
    \/ GetFeatureNames

Spec == Init /\ [][Next]_vars

\* the extractor applied to one message
InitExtract ==
    /\ InitCommon
    /\ NoService
    /\ NoData
    /\ X \in {<<m>> : m \in ExtractMessages}
    /\ text = <<>>

NextExtract == Fit(X) \/ Transform(X) \/ GetFeatureNames

SpecExtract == InitExtract /\ [][NextExtract]_vars

\* clean_text applied to one text, and again to its own output
InitClean ==
    /\ InitCommon
    /\ NoService
    /\ NoData
    /\ X = <<>>
    /\ text \in CleanMessages

NextClean == CleanText \/ CleanTextAgain

SpecClean == InitClean /\ [][NextClean]_vars

\* 'WINNER! Call now to claim your FREE prize, www.spam.com'
WinnerMessage ==
    <<87, 73, 78, 78, 69, 82, 33, 32, 67, 97, 108, 108, 32, 110, 111, 119, 32,
      116, 111, 32, 99, 108, 97, 105, 109, 32, 121, 111, 117, 114, 32, 70, 82,
      69, 69, 32, 112, 114, 105, 122, 101, 44, 32, 119, 119, 119, 46, 115, 112,
      97, 109, 46, 99, 111, 109>>

\* 'выигра', 'ли', 'н', 'ПРИЗ', 'won', 'Free', ' '
KeywordPieces ==
    { <<1074, 1099, 1080, 1075, 1088, 1072>>, <<1083, 1080>>, <<1085>>,
      <<1055, 1056, 1048, 1047>>, <<119, 111, 110>>, <<70, 114, 101, 101>>,
      <<32>> }

KeywordMessages ==
    {Flatten(ps) : ps \in SeqsUpTo(KeywordPieces, MaxKeywordPieces)}
        \cup {WinnerMessage}

\* the extractor applied to a message and to the message repeated after a
\* separating space
InitKeywords ==
    /\ InitCommon
    /\ NoService
    /\ NoData
    /\ X \in {<<m, m \o <<32>> \o m>> : m \in KeywordMessages}
    /\ text = <<>>

NextKeywords == Fit(X) \/ Transform(X) \/ GetFeatureNames

SpecKeywords == InitKeywords /\ [][NextKeywords]_vars

\* one process serving predict calls and /classify requests
InitService ==
    /\ InitCommon
    /\ X = <<>>
    /\ text = <<>>
    /\ NoService
    /\ NoData

NextService ==
    \/ \E v \in ServiceValues : Predict(v)
    \/ \E req \in ServiceRequests : Classify(req)
    \/ \E b \in Bundles : TrainModel(b)

SpecService == InitService /\ [][NextService]_vars

\* predict called with each kind of string, with and without a bundle file
InitEdge ==
    /\ InitCommon
    /\ X = <<>>
    /\ text = <<>>
    /\ model_pkl \in Bundles \cup {Missing}
    /\ calls = <<>>
    /\ loads = 0
    /\ response = NoResponse
    /\ NoData

NextEdge == \E t \in EdgeTexts : Predict(PyStr(t))

SpecEdge == InitEdge /\ [][NextEdge]_vars

\* rows of the English source: (ham, 'hi'), (spam, '£1'), (ham, 'NA')
EnglishRows ==
    { CsvRow("ham", <<104, 105>>, ""), CsvRow("spam", <<163, 49>>, ""),
      CsvRow("ham", <<78, 65>>, "") }

EnglishFiles == {File("latin-1", rows) : rows \in SeqsUpTo(EnglishRows, MaxEnglishRows)}

\* data/russian_messages.csv (UTF-8): (spam, 'Да'), or (ham, 'hi') and (spam, 'Да')
RussianFiles ==
    { File("utf-8", <<CsvRow("spam", <<208, 148, 208, 176>>, "")>>),
      File("utf-8", <<CsvRow("ham", <<104, 105>>, ""),
                      CsvRow("spam", <<208, 148, 208, 176>>, "")>>) }

\* the merge scripts run again and again on data/, which holds no backup
InitMerge ==
    /\ InitCommon
    /\ X = <<>>
    /\ text = <<>>
    /\ NoService
    /\ raw_csv \in EnglishFiles
    /\ russian_csv \in RussianFiles
    /\ backup_simple = NoFile
    /\ backup_russian = NoFile
    /\ multilingual_csv = NoFile
    /\ train_csv = NoFile
    /\ test_csv = NoFile
    /\ history = <<>>
    /\ prepared = NotPrepared

NextMerge ==
    \/ MergeDataSimple
    \/ \E update_raw \in BOOLEAN : MergeRussianData(update_raw)

SpecMerge == InitMerge /\ [][NextMerge]_vars

\* six messages of two classes: (spam, 'a'), (spam, 'b'), (ham, 'c'),
\* (ham, 'd'), (ham, 'e'), (ham, 'f')
BaseRows ==
    << CsvRow("spam", <<97>>, ""), CsvRow("spam", <<98>>, ""),
       CsvRow("ham", <<99>>, ""), CsvRow("ham", <<100>>, ""),
       CsvRow("ham", <<101>>, ""), CsvRow("ham", <<102>>, "") >>

\* (ham, 'A '), (spam, '  '), (ham, 'www.a'), (spam, 'g'), (ham, 'NA')
ExtraRows ==
    { CsvRow("ham", <<65, 32>>, ""), CsvRow("spam", <<32, 32>>, ""),
      CsvRow("ham", <<119, 119, 119, 46, 97>>, ""), CsvRow("spam", <<103>>, ""),
      CsvRow("ham", <<78, 65>>, "") }

\* data/raw.csv as prepare_data finds it: the six messages with further rows
\* before and after them, or the further rows alone
PrepareFiles ==
    {File("latin-1", before \o BaseRows \o after) :
        before \in SeqsUpTo(ExtraRows, MaxExtraRows), after \in SeqsUpTo(ExtraRows, 1)}
      \cup {File("latin-1", rows) : rows \in SeqsUpTo(ExtraRows, MaxExtraRows)}

InitPrepare ==
    /\ InitCommon
    /\ X = <<>>
    /\ text = <<>>
    /\ NoService
    /\ raw_csv \in PrepareFiles
    /\ russian_csv = NoFile
    /\ backup_simple = NoFile
    /\ backup_russian = NoFile
    /\ multilingual_csv = NoFile
    /\ train_csv = NoFile
    /\ test_csv = NoFile
    /\ history = <<>>
    /\ prepared = NotPrepared

NextPrepare == PrepareData

SpecPrepare == InitPrepare /\ [][NextPrepare]_vars

\* 'ℂ', 'Free', ' ', '\n', 'WWW', 'Ж'
PipelinePieces ==
    { <<8450>>, <<70, 114, 101, 101>>, <<32>>, <<10>>, <<87, 87, 87>>, <<1046>> }

PipelineMessages ==
    {Flatten(ps) : ps \in SeqsUpTo(PipelinePieces, MaxPipelinePieces)}

\* the prediction pipeline: a text is cleaned, and the cleaned text is
\* handed to the extractor
InitPipeline ==
    /\ InitCommon
    /\ NoService
    /\ NoData
    /\ X = <<>>
    /\ text \in PipelineMessages

NextPipeline == CleanText \/ ExtractCleaned

SpecPipeline == InitPipeline /\ [][NextPipeline]_vars


(***************************************************************************)
(* Properties of the feature extractor on one message (SpecExtract).       *)
(***************************************************************************)
\* the row transform returned for the one message of X
Row == features.rows[1]

TransformReturned == op = "transform" /\ ~features.raised /\ Len(features.rows) = 1

\* C1: transform([m]) yields one row of exactly 21 numeric fields, and the
\* i-th field is the feature that the i-th entry of get_feature_names() names.
C1_RowFollowsFeatureNames ==
    op = "transform" =>
        /\ TransformReturned
        /\ Len(Row) = 21
        /\ Len(get_feature_names) = 21
        /\ \A i \in 1..21 :
              /\ IsNumeric(Row[i])
              /\ Row[i] = ToFloat(DictGet(feature_dict(self, X[1]), get_feature_names[i]))

\* a message with Latin but no Cyrillic letters was transformed, after
\* get_feature_names was called: fields 15 and 16 differ
C1_Witness ==
    /\ TransformReturned
    /\ names = get_feature_names
    /\ IsZero(Row[15])
    /\ IsOne(Row[16])

\* C2: for a message without whitespace-delimited tokens (empty or
\* whitespace only) the avg_word_length field is 0.
C2_NoTokensAvgZero ==
    (op = "transform" /\ Split(X[1]) = <<>>) =>
        TransformReturned /\ IsZero(Row[3])

\* C3: the empty string yields length, word_count, avg_word_length,
\* caps_ratio, digit_ratio and all 16 other fields equal to 0.
C3_EmptyStringAllZero ==
    (op = "transform" /\ X[1] = <<>>) =>
        TransformReturned /\ Len(Row) = 21 /\ \A i \in 1..21 : IsZero(Row[i])

C3_Witness == TransformReturned /\ X = << <<>> >> /\ IsZero(Row[3]) /\ IsZero(Row[11])

\* C4: transform never ends in an error for a string: for the empty string,
\* whitespace-only, punctuation-only and non-Latin/non-Cyrillic strings it
\* returns a row.
C4_TransformNeverRaises ==
    op = "transform" => ~features.raised /\ Len(features.rows) = Len(X)

\* a whitespace-only message (' \n') was transformed and a row came back
C4_Witness ==
    /\ TransformReturned
    /\ X = << <<32, 10>> >>
    /\ Len(Row) = 21

\* letters of the Cyrillic alphabet: U+0400..U+045F
CyrillicLetters == CyrExtUpper \cup CyrUpper \cup CyrLower \cup CyrExtLower

LatinLetters == LatinLower \cup LatinUpper

Contains(t, S) == \E i \in 1..Len(t) : t[i] \in S

\* C10: has_cyrillic is 1 if the message contains any Cyrillic letter and 0
\* otherwise; has_latin is 1 exactly when a letter a-z/A-Z is present.
C10_CyrillicAndLatinFlags ==
    op = "transform" =>
        /\ TransformReturned
        /\ IF Contains(X[1], CyrillicLetters) THEN IsOne(Row[15]) ELSE IsZero(Row[15])
        /\ IF Contains(X[1], LatinLetters) THEN IsOne(Row[16]) ELSE IsZero(Row[16])

(***************************************************************************)
(* Properties of clean_text (SpecClean).                                   *)
(***************************************************************************)
CleanRan == op \in {"clean_text", "clean_text_again"}

\* C5: clean_text is idempotent: cleaning clean_text's output again gives
\* the same text, so a removed URL never leaves one a second pass removes.
C5_CleanTextIdempotent ==
    op = "clean_text_again" => cleaned = clean_text(text)

\* 'WWWa w' was cleaned to 'w', and cleaned again
C5_Witness ==
    /\ op = "clean_text_again"
    /\ text = <<87, 87, 87, 97, 32, 119>>
    /\ cleaned = <<119>>

\* w occurs in t at position i and a non-whitespace character follows it
PrefixThenNonSpace(t, i, w) ==
    /\ i + Len(w) <= Len(t)
    /\ \A j \in 1..Len(w) : t[i + j - 1] = w[j]
    /\ t[i + Len(w)] \notin Whitespace

UrlStart(t, i) ==
    \/ PrefixThenNonSpace(t, i, <<104, 116, 116, 112>>)
    \/ PrefixThenNonSpace(t, i, <<119, 119, 119>>)

\* a token up to where its first URL-like substring starts
TokenKept(tok) ==
    LET starts == {i \in 1..Len(tok) : UrlStart(tok, i)}
    IN  IF starts = {} THEN tok
        ELSE SubSeq(tok, 1, (CHOOSE i \in starts : \A j \in starts : i <= j) - 1)

RECURSIVE TokensKept(_)
TokensKept(toks) ==
    IF toks = <<>> THEN <<>>
    ELSE (IF TokenKept(Head(toks)) = <<>> THEN <<>> ELSE <<TokenKept(Head(toks))>>)
             \o TokensKept(Tail(toks))

\* C6: the output of clean_text has no 'http' or 'www' immediately followed
\* by a non-whitespace character, and the rest of the token that followed
\* such a prefix is removed with it: what is left of each token is the part
\* before its first URL-like substring.
C6_NoUrlLeft ==
    /\ CleanRan => \A i \in 1..Len(cleaned) : ~UrlStart(cleaned, i)
    /\ op = "clean_text" => Split(cleaned) = TokensKept(Split(Lower(text)))

\* 'a https:' was cleaned to 'a'
C6_Witness ==
    /\ op = "clean_text"
    /\ text = <<97, 32, 104, 116, 116, 112, 115, 58>>
    /\ cleaned = <<97>>

\* no leading or trailing whitespace, and every whitespace run is one space
SingleSpaced(t) ==
    /\ t # <<>> => (t[1] \notin Whitespace /\ t[Len(t)] \notin Whitespace)
    /\ \A i \in 1..Len(t) : t[i] \in Whitespace => t[i] = 32
    /\ \A i \in 1..(Len(t) - 1) : ~(t[i] \in Whitespace /\ t[i + 1] \in Whitespace)

\* C7 as stated: clean_text(m) contains no uppercase character, has no
\* leading or trailing whitespace, and every whitespace run is one space.
C7_NoUppercaseCanonical ==
    CleanRan =>
        /\ \A i \in 1..Len(cleaned) : ~IsUpper(cleaned[i])
        /\ SingleSpaced(cleaned)

\* C7 amended: clean_text(m) is unchanged by lower() (an uppercase character
\* is left only where it has no lowercase form), has no leading or trailing
\* whitespace, and every whitespace run is one space.
C7_LoweredCanonical ==
    CleanRan =>
        /\ Lower(cleaned) = cleaned
        /\ \A i \in 1..Len(cleaned) : IsUpper(cleaned[i]) => cleaned[i] \in UpperNoLower
        /\ SingleSpaced(cleaned)

\* U+2102, ' \n', 'WWW' was cleaned to U+2102, ' ', 'www'
C7_Witness ==
    /\ op = "clean_text"
    /\ text = <<8450, 32, 10, 87, 87, 87>>
    /\ cleaned = <<8450, 32, 119, 119, 119>>

(***************************************************************************)
(* Properties of one extractor instance over batches (Spec).               *)
(***************************************************************************)
\* C8: batch extraction is order-preserving and elementwise: transform and
\* add_spam_features return n rows for n messages, and row i is the row
\* obtained by extracting message i on its own.
C8_BatchIsElementwise ==
    /\ op = "transform" =>
          /\ ~features.raised
          /\ Len(features.rows) = Len(X)
          /\ \A i \in 1..Len(X) : features.rows[i] = transform(self, <<X[i]>>).rows[1]
    /\ op = "add_spam_features" =>
          /\ ~features.raised
          /\ Len(features.rows) = Len(X)
          /\ \A i \in 1..Len(X) : features.rows[i] = add_spam_features(<<X[i]>>).rows[1]

\* a batch of three messages whose first two differ was transformed
C8_Witness ==
    /\ op = "transform"
    /\ Len(X) = 3
    /\ X[1] # X[2]
    /\ Len(features.rows) = 3
    /\ features.rows[1] # features.rows[2]

\* C9: no hidden state: over any sequence of fit and transform calls the
\* keyword lists and patterns stay as the constructor set them, fit leaves
\* the instance unchanged, and the rows returned for a batch are those the
\* constructor's tables give, whatever was fitted or transformed before.
C9_NoHiddenState ==
    /\ self = SpamFeatureExtractor_init
    /\ op \in {"fit", "transform"} => features = transform(SpamFeatureExtractor_init, X)

\* fit ran on an instance that had transformed a batch of three messages
C9_Witness ==
    /\ op = "fit"
    /\ Len(X) = 3
    /\ Len(features.rows) = 3
    /\ self.english_spam_keywords = english_spam_keywords_init

(***************************************************************************)
(* Properties of the keyword counts and of caps_ratio (SpecKeywords).      *)
(* X[1] is a message m and X[2] is m, a space, and m again.                *)
(***************************************************************************)
KeywordsReturned == op = "transform" /\ ~features.raised /\ Len(features.rows) = 2

\* v > n / d, for a float v and naturals n, d with d > 0
Above(v, n, d) == v.tag = "float" /\ v.den > 0 /\ v.num * d > n * v.den

\* v = n / d
Exactly(v, n, d) == v.tag = "float" /\ v.den > 0 /\ v.num * d = n * v.den

\* C11: for 'WINNER! Call now to claim your FREE prize, www.spam.com' the
\* caps_ratio field is strictly greater than 0.2.
C11_WinnerCapsAboveFifth ==
    (op = "transform" /\ X[1] = WinnerMessage) =>
        KeywordsReturned /\ Above(features.rows[1][11], 2, 10)

\* C11, amended: for that message caps_ratio is 11 / 55, which is equal to
\* 0.2 and so not above it: 11 of its 55 characters are uppercase.
C11_WinnerCapsIsFifth ==
    (op = "transform" /\ X[1] = WinnerMessage) =>
        /\ KeywordsReturned
        /\ features.rows[1][11] = PyFloat(11, 55)
        /\ Exactly(features.rows[1][11], 2, 10)
        /\ ~Above(features.rows[1][11], 2, 10)

\* the message was transformed
C11_Witness ==
    /\ KeywordsReturned
    /\ X[1] = WinnerMessage
    /\ Len(X[1]) = 55
    /\ CountUpper(X[1]) = 11

\* 'выигра'
Stem_vyigra == <<1074, 1099, 1080, 1075, 1088, 1072>>

\* C12: every message whose lowercased text contains the stem 'выигра' has
\* russian_spam_words >= 1.
C12_StemCounted ==
    (op = "transform" /\ IsSubstring(Stem_vyigra, Lower(X[1]))) =>
        /\ KeywordsReturned
        /\ features.rows[1][13].tag = "float"
        /\ features.rows[1][13].num >= features.rows[1][13].den

\* the keywords of a list that occur in the lowercased message
Present(keywords, t) ==
    {i \in 1..Len(keywords) : IsSubstring(keywords[i], Lower(t))}

\* the keywords as a set: no entry is listed twice
Distinct(keywords) ==
    \A i, j \in 1..Len(keywords) : keywords[i] = keywords[j] => i = j

\* C13: russian_spam_words and english_spam_words are the numbers of distinct
\* entries of the 21-entry and the 16-entry list that occur in the lowercased
\* message, one per keyword however often it occurs; they lie in 0..21 and
\* 0..16 and do not change when the message is repeated after a space.
C13_KeywordCounts ==
    /\ Len(self.russian_spam_keywords) = 21 /\ Distinct(self.russian_spam_keywords)
    /\ Len(self.english_spam_keywords) = 16 /\ Distinct(self.english_spam_keywords)
    /\ op = "transform" =>
          /\ KeywordsReturned
          /\ \A i \in 1..2 :
                /\ features.rows[i][13] =
                       PyFloat(Cardinality(Present(self.russian_spam_keywords, X[i])), 1)
                /\ features.rows[i][14] =
                       PyFloat(Cardinality(Present(self.english_spam_keywords, X[i])), 1)
                /\ features.rows[i][13].num \in 0..21
                /\ features.rows[i][14].num \in 0..16
          /\ features.rows[2][13] = features.rows[1][13]
          /\ features.rows[2][14] = features.rows[1][14]

\* 'Free' and 'won' were both in the message, so 'free' and 'won' occur
\* twice each in the repeated message and are counted once each
C13_Witness ==
    /\ KeywordsReturned
    /\ X[1] = <<70, 114, 101, 101, 119, 111, 110>>
    /\ features.rows[1][14] = PyFloat(2, 1)
    /\ features.rows[2][14] = PyFloat(2, 1)
    /\ Occurrences(<<119, 111, 110>>, Lower(X[2])) = 2

(***************************************************************************)
(* Properties of the prediction service (SpecService, SpecEdge).           *)
(***************************************************************************)
\* C14: over any sequence of predict calls in one process the bundle file
\* is opened and deserialized at most once.
C14_BundleLoadedOnce == loads <= 1

\* the last operation was a direct call of predict with a str, and there
\* was a bundle file
PredictedWithBundle ==
    /\ response.called
    /\ response.status = 0
    /\ response.message.type = "str"
    /\ response.out.loaded

MessageMissing(req) ==
    \/ ~req.has_message
    \/ req.message.type = "str" /\ req.message.chars = <<>>

\* C18: /classify maps every request to one outcome: 400 with an error and
\* no predict call when 'message' is missing or empty; 500 with an error
\* when predict raises; otherwise 200 with the message, the label as
\* 'result', and 'is_spam' true exactly when the label is 'spam'.
C18_OneOutcomePerRequest ==
    response.req # NoRequest =>
        IF MessageMissing(response.req)
        THEN response.status = 400 /\ response.error # "" /\ ~response.called
        ELSE IF response.called /\ response.out.raised # ""
        THEN response.status = 500 /\ response.error # ""
        ELSE /\ response.status = 200
             /\ response.called
             /\ response.message = response.req.message
             /\ response.result = response.out.value
             /\ response.result \in Labels
             /\ response.is_spam = (response.result = "spam")

(***************************************************************************)
(* Properties of the merge scripts (SpecMerge) and of prepare_data         *)
(* (SpecPrepare).                                                          *)
(***************************************************************************)
\* the (label, message) rows a file holds, each message as the text that
\* the file's bytes spell in the file's encoding
TextRows(file) ==
    [i \in 1..Len(file.rows) |->
        <<file.rows[i].v1, Decode(file.rows[i].v2, file.encoding)>>]

\* how often a row occurs
CountRow(rows, r) == Cardinality({i \in 1..Len(rows) : rows[i] = r})

\* the same rows, each as often
SameRows(a, b) ==
    /\ Len(a) = Len(b)
    /\ \A i \in 1..Len(a) : CountRow(a, a[i]) = CountRow(b, a[i])

\* C17: the rows a merge writes are, as a multiset of (label, message)
\* pairs, the rows of the English source and of the Russian source together:
\* len(english) + len(russian) rows, every label with the message it had.
C17_MergeKeepsRows ==
    \A k \in 1..Len(history) :
        /\ Len(history[k].written.rows)
               = Len(history[k].english.rows) + Len(history[k].russian.rows)
        /\ SameRows(TextRows(history[k].written),
                    TextRows(history[k].english) \o TextRows(history[k].russian))

\* the messages prepare_data wrote, train.csv first
WrittenRows == TextRows(train_csv) \o TextRows(test_csv)

\* the input's rows with their messages cleaned
CleanedInput ==
    [i \in 1..Len(prepared.input.rows) |->
        <<prepared.input.rows[i].v1,
          clean_text(Decode(prepared.input.rows[i].v2, "latin-1"))>>]

FirstWith(rows, message) ==
    CHOOSE i \in 1..Len(rows) :
        /\ rows[i][2] = message
        /\ \A j \in 1..(i - 1) : rows[j][2] # message

\* C19: what prepare_data writes is a clean partition: every message in
\* train.csv and test.csv is non-empty and a fixed point of clean_text, no
\* message occurs twice across the two files, and the two files hold exactly
\* the distinct non-empty cleaned messages of the input, each with the label
\* of its first occurrence.
C19_CleanPartition ==
    (prepared.ran /\ prepared.raised = "") =>
        /\ train_csv.exists /\ test_csv.exists
        /\ \A i \in 1..Len(WrittenRows) :
              /\ WrittenRows[i][2] # <<>>
              /\ clean_text(WrittenRows[i][2]) = WrittenRows[i][2]
              /\ \A j \in 1..Len(WrittenRows) :
                    WrittenRows[j][2] = WrittenRows[i][2] => j = i
              /\ WrittenRows[i][1]
                     = CleanedInput[FirstWith(CleanedInput, WrittenRows[i][2])][1]
        /\ {WrittenRows[i][2] : i \in 1..Len(WrittenRows)}
               = {CleanedInput[i][2] : i \in 1..Len(CleanedInput)} \ {<<>>}

\* the input began with (ham, 'A ') and went on with (spam, 'a'): 'a' was
\* written once, as ham, and both files hold rows
C19_Witness ==
    /\ prepared.ran /\ prepared.raised = ""
    /\ prepared.input.rows[1] = CsvRow("ham", <<65, 32>>, "")
    /\ prepared.input.rows[2] = CsvRow("spam", <<97>>, "")
    /\ CountRow(WrittenRows, <<"ham", <<97>>>>) = 1
    /\ CountRow(WrittenRows, <<"spam", <<97>>>>) = 0
    /\ Len(train_csv.rows) > 0
    /\ Len(test_csv.rows) > 0

\* C20: the English-only backup is write-once: starting with no backup file
\* it is written in the first run of the merge scripts only, before raw.csv
\* changes, and every later run leaves it alone, so that it always holds
\* raw.csv as it was before the first merge.
C20_BackupWriteOnce ==
    /\ \A k \in 2..Len(history) : history[k].backups = {}
    /\ backup_simple.exists =>
          history # <<>> /\ TextRows(backup_simple) = TextRows(history[1].english)
    /\ backup_russian.exists =>
          history # <<>> /\ TextRows(backup_russian) = TextRows(history[1].english)

\* raw.csv as run k left it
RawAfter(k) == IF k < Len(history) THEN history[k + 1].english ELSE raw_csv

\* how many of the first k runs replaced raw.csv
Updates(k) == Cardinality({j \in 1..k : history[j].update_raw})

\* C21: re-running the merge accumulates rows: a run of merge_data_simple,
\* or of merge_russian_data with --update-raw, takes the current raw.csv as
\* its English source and appends the whole Russian source again, so that
\* after k such runs raw.csv holds E + k * R rows; a run of
\* merge_russian_data without --update-raw leaves raw.csv unchanged.
C21_MergeAccumulates ==
    \A k \in 1..Len(history) :
        /\ Len(RawAfter(k).rows)
               = Len(history[1].english.rows) + Updates(k) * Len(russian_csv.rows)
        /\ history[k].russian = russian_csv
        /\ history[k].update_raw =>
              /\ RawAfter(k) = history[k].written
              /\ Len(RawAfter(k).rows)
                     = Len(history[k].english.rows) + Len(history[k].russian.rows)
              /\ \A i \in 1..Len(russian_csv.rows) :
                    CountRow(TextRows(RawAfter(k)), TextRows(russian_csv)[i])
                        >= CountRow(TextRows(russian_csv), TextRows(russian_csv)[i])
        /\ ~history[k].update_raw => RawAfter(k) = history[k].english

\* two runs replaced raw.csv, one by each script: 2 + 2 * 2 rows
C21_Witness ==
    /\ Len(history) = 2
    /\ history[1].script = "merge_data_simple.py"
    /\ history[2].script = "merge_russian_data.py"
    /\ history[2].update_raw
    /\ Len(history[1].english.rows) = 2
    /\ Len(russian_csv.rows) = 2
    /\ Len(raw_csv.rows) = 6

(***************************************************************************)
(* Properties of the pipeline clean_text, then the extractor               *)
(* (SpecPipeline).                                                         *)
(***************************************************************************)
\* the extractor returned the row of the one text it was handed
Extracted == op = "transform" /\ ~features.raised /\ Len(features.rows) = 1

\* avg_word_length is a number
AvgDefined == features.rows[1][3].tag = "float"

=============================================================================
